---- MODULE Spec2Model ----
(***************************************************************************)
(* Model of operator.py of chain_link_tools: the two Blender operators     *)
(* AddBoneChain (armature.add_bone_chain) and CreateChainMeshArray         *)
(* (mesh.create_chain_mesh_array).  Each execute() is cut into the steps   *)
(* of its loops; the host calls it makes (edit_bones.new, mode_set,        *)
(* constraints.new, vertex_groups.new/remove, bmesh.ops.duplicate) are     *)
(* modelled by what the host does at that call.                            *)
(***************************************************************************)
EXTENDS Integers, Sequences, FiniteSets

\* ------------------------------------------------------------------ bounds
MaxBoneCount == 3      \* largest bone_count an invocation is given
MaxInvocations == 2    \* AddBoneChain invocations per behaviour
MantissaBits == 3      \* precision of the modelled floating point format
MaxArmBones == 3       \* bones of the armature that deforms the mesh
MaxVerts == 2          \* vertices of the mesh before the operator runs

VARIABLES
    \* --- AddBoneChain and the armature it edits
    mode,          \* bpy mode of the active object: "OBJECT", "EDIT", "POSE"
    objects,       \* bpy.data.objects: curve name -> [splines, path_duration]
    bones,         \* arm.edit_bones / arm.bones: name -> bone record
    constraints,   \* pose.bones[name].constraints: name -> Seq of constraints
    self,          \* operator properties: bone_count, bone_name, curve_enum
    pc,            \* position inside AddBoneChain.execute
    i,             \* loop index of the running loop
    L,             \* link length (line 118)
    result,        \* what execute returned: "FINISHED", "CANCELLED", "EXCEPTION"
    report,        \* report type of self.report, "NONE" when nothing reported
    invocation,    \* number of execute calls started so far
    pre,           \* the armature state when the running/last execute started
    completed,     \* the invocations that returned FINISHED
    \* --- CreateChainMeshArray and the mesh it edits
    modifiers,     \* context.active_object.modifiers
    children,      \* arm.bones[b].children, in order
    rootbone_enum, \* operator property
    chain,         \* local chain (line 200)
    vertex_groups, \* mesh_obj.vertex_groups: Seq of group names
    nverts,        \* bm.verts are 1..nverts
    select,        \* the selected vertices
    dvert,         \* deform layer: vertex -> (group index -> weight)
    co,            \* vertex position along the chain axis
    frag,          \* vertex -> index in chain of the fragment it is a copy for
    geom,          \* the template vertices captured at line 222
    mpc,           \* position inside CreateChainMeshArray.execute
    mi,            \* loop index of the running loop
    mresult,       \* what execute returned
    mreport,       \* report type
    mpre           \* the mesh state when execute started

armVars == <<mode, objects, bones, constraints, self, pc, i, L, result, report,
             invocation, pre, completed>>
meshVars == <<modifiers, children, rootbone_enum, chain, vertex_groups, nverts,
              select, dvert, co, frag, geom, mpc, mi, mresult, mreport, mpre>>
vars == <<armVars, meshVars>>

\* --------------------------------------------------------- floating point
\* Non-negative floats with a MantissaBits-bit mantissa, as integer multiples
\* of the smallest unit; division and multiplication round to nearest, ties
\* to even, as IEEE 754 does.
RECURSIVE Pow2(_)
Pow2(k) == IF k = 0 THEN 1 ELSE 2 * Pow2(k - 1)

RoundHalfEven(a, b) ==
    LET q == a \div b
        r == a % b
    IN  IF 2 * r < b THEN q
        ELSE IF 2 * r > b THEN q + 1
        ELSE IF q % 2 = 0 THEN q ELSE q + 1

RECURSIVE Exponent(_, _, _)
Exponent(num, den, k) ==
    IF num < den * Pow2(MantissaBits) * Pow2(k) THEN k ELSE Exponent(num, den, k + 1)

\* the float nearest to num/den
FRound(num, den) ==
    LET k == Exponent(num, den, 0)
    IN  RoundHalfEven(num, den * Pow2(k)) * Pow2(k)

FDiv(x, n) == FRound(x, n)
FMul(x, n) == FRound(x * n, 1)
FHalf(x) == FRound(x, 2)

\* ------------------------------------------------------------- bone names
BaseNames == {"Chain"}

NoName == [base |-> "", num |-> 0, loc |-> FALSE, dup |-> 0]

\* "{}.{:03d}".format(self.bone_name, i)
get_bone_name(base, n) == [base |-> base, num |-> n, loc |-> FALSE, dup |-> 0]

\* "{}.{:03d}.Locator".format(self.bone_name, i)
get_locator_name(base, n) == [base |-> base, num |-> n, loc |-> TRUE, dup |-> 0]

\* The name the host gives a bone created as `name`: the name itself when it
\* is free; otherwise the host splits a trailing ".NNN" off and counts up
\* from NNN+1 ("Chain.000" -> "Chain.001", "Chain.000.Locator" ->
\* "Chain.000.Locator.001") until the name is free.
UniqueName(name, taken) ==
    IF name \notin taken THEN name
    ELSE IF ~name.loc /\ name.dup = 0
    THEN LET free(k) == [name EXCEPT !.num = k] \notin taken
             k == CHOOSE k \in (name.num + 1)..(name.num + Cardinality(taken) + 1) :
                     free(k) /\ \A j \in (name.num + 1)..(k - 1) : ~free(j)
         IN  [name EXCEPT !.num = k]
    ELSE LET free(k) == [name EXCEPT !.dup = k] \notin taken
             k == CHOOSE k \in (name.dup + 1)..(name.dup + Cardinality(taken) + 1) :
                     free(k) /\ \A j \in (name.dup + 1)..(k - 1) : ~free(j)
         IN  [name EXCEPT !.dup = k]

\* collection.get(name): the name when present, None otherwise
Get(coll, name) == IF name \in DOMAIN coll THEN name ELSE NoName

Put(f, k, v) == [x \in DOMAIN f \cup {k} |-> IF x = k THEN v ELSE f[x]]

\* ------------------------------------------------------------ the curves
CurveName == "Curve"
MissingName == "Missing"
Lengths == {0, 40, 56}
SplineLists == {<<>>} \cup {<<a>> : a \in Lengths} \cup {<<a, b>> : a, b \in Lengths}

\* bpy.data.objects.get(self.curve_enum, None)
get_curve_object(enum) == IF enum \in DOMAIN objects THEN enum ELSE MissingName

RECURSIVE SumSeq(_)
SumSeq(s) == IF s = <<>> THEN 0 ELSE Head(s) + SumSeq(Tail(s))

\* spline.calc_length() of the spline the operator reads
\* variant: the last spline is read instead of the first
SplineLenLast(curve) == curve.splines[Len(curve.splines)]
\* spline.calc_length() of the spline the operator reads, curve.splines[0]
SplineLen(curve) == curve.splines[1]

\* ----------------------------------------------------------- AddBoneChain
Snapshot == [bones |-> bones, constraints |-> constraints, mode |-> mode]

\* lines 96-99: the curve does not resolve
ExecuteNoCurve ==
    /\ pc = "idle" /\ invocation < MaxInvocations
    /\ \E n \in 1..MaxBoneCount, b \in BaseNames, e \in {CurveName, MissingName} :
         /\ get_curve_object(e) = MissingName
         /\ self' = [bone_count |-> n, bone_name |-> b, curve_enum |-> e]
    /\ invocation' = invocation + 1
    /\ pre' = Snapshot
    /\ report' = "ERROR_INVALID_INPUT"
    /\ result' = "CANCELLED"
    /\ UNCHANGED <<meshVars, mode, objects, bones, constraints, pc, i, L, completed>>

\* lines 100-103: the curve has no spline
\* variant: the spline check placed after edit_mode_in()
ExecuteNoSplineLate ==
    /\ pc = "idle" /\ invocation < MaxInvocations
    /\ \E n \in 1..MaxBoneCount, b \in BaseNames, e \in {CurveName, MissingName} :
         /\ get_curve_object(e) # MissingName
         /\ Len(objects[e].splines) < 1
         /\ self' = [bone_count |-> n, bone_name |-> b, curve_enum |-> e]
    /\ invocation' = invocation + 1
    /\ pre' = Snapshot
    /\ mode' = "EDIT"
    /\ report' = "ERROR_INVALID_INPUT"
    /\ result' = "CANCELLED"
    /\ UNCHANGED <<meshVars, objects, bones, constraints, pc, i, L, completed>>

ExecuteNoSpline ==
    /\ pc = "idle" /\ invocation < MaxInvocations
    /\ \E n \in 1..MaxBoneCount, b \in BaseNames, e \in {CurveName, MissingName} :
         /\ get_curve_object(e) # MissingName
         /\ Len(objects[e].splines) < 1
         /\ self' = [bone_count |-> n, bone_name |-> b, curve_enum |-> e]
    /\ invocation' = invocation + 1
    /\ pre' = Snapshot
    /\ report' = "ERROR_INVALID_INPUT"
    /\ result' = "CANCELLED"
    /\ UNCHANGED <<meshVars, mode, objects, bones, constraints, pc, i, L, completed>>

\* lines 104-118: the curve is valid; enter edit mode and compute L
LinkLength(curve, n) == FDiv(SplineLen(curve), n)

ExecuteBegin ==
    /\ pc = "idle" /\ invocation < MaxInvocations
    /\ \E n \in 1..MaxBoneCount, b \in BaseNames, e \in {CurveName, MissingName} :
         /\ get_curve_object(e) # MissingName
         /\ Len(objects[e].splines) >= 1
         /\ self' = [bone_count |-> n, bone_name |-> b, curve_enum |-> e]
         /\ L' = LinkLength(objects[e], n)
    /\ invocation' = invocation + 1
    /\ pre' = Snapshot
    /\ mode' = "EDIT"
    /\ report' = "NONE"
    /\ result' = "RUNNING"
    /\ pc' = "bones"
    /\ i' = 0
    /\ UNCHANGED <<meshVars, objects, bones, constraints, completed>>

\* lines 119-128: one iteration of the edit-bone loop.  head and tail are the
\* offsets along the X axis before the transform `space`, an invertible map.
ParentOf(k) == IF k > 0 THEN Get(bones, get_bone_name(self.bone_name, k - 1)) ELSE NoName

CreateBones ==
    /\ pc = "bones" /\ i < self.bone_count
    /\ LET bname == UniqueName(get_bone_name(self.bone_name, i), DOMAIN bones)
           bone == [parent |-> ParentOf(i),
                    head |-> FMul(L, i), tail |-> FMul(L, i + 1),
                    inv |-> invocation, idx |-> i, role |-> "main"]
           bones1 == Put(bones, bname, bone)
           lname == UniqueName(get_locator_name(self.bone_name, i), DOMAIN bones1)
           locator == [parent |-> NoName, head |-> 0, tail |-> FHalf(L),
                       inv |-> invocation, idx |-> i, role |-> "locator"]
       IN  bones' = Put(bones1, lname, locator)
    /\ i' = i + 1
    /\ UNCHANGED <<meshVars, mode, objects, constraints, self, pc, L, result, report,
                   invocation, pre, completed>>

\* line 131: edit_mode_out().  Leaving edit mode the host deletes the bones
\* of zero length, hands their children to the nearest kept ancestor, and
\* rebuilds the pose: kept bones keep their constraints, new ones have none.
ZeroLength == {b \in DOMAIN bones : bones[b].head = bones[b].tail}

RECURSIVE KeptAncestor(_)
KeptAncestor(b) ==
    IF b = NoName \/ b \notin ZeroLength THEN b ELSE KeptAncestor(bones[b].parent)

\* variant: edit_mode_out() that leaves the mode alone
ModeAfterEditWrong == "EDIT"
ModeAfterEdit == "OBJECT"

EditModeOut ==
    /\ pc = "bones" /\ i = self.bone_count
    /\ mode' = ModeAfterEdit
    /\ bones' = [b \in DOMAIN bones \ ZeroLength |->
                    [bones[b] EXCEPT !.parent = KeptAncestor(bones[b].parent)]]
    /\ constraints' = [b \in DOMAIN bones \ ZeroLength |->
                          IF b \in DOMAIN constraints THEN constraints[b] ELSE <<>>]
    /\ pc' = "constraints"
    /\ i' = 0
    /\ UNCHANGED <<meshVars, objects, self, L, result, report, invocation, pre, completed>>

\* lines 133-151: one iteration of the constraint loop
AddConstraints ==
    /\ pc = "constraints" /\ i < self.bone_count
    /\ LET bone == Get(constraints, get_bone_name(self.bone_name, i))
           locator == Get(constraints, get_locator_name(self.bone_name, i))
           follow == [type |-> "FOLLOW_PATH", target |-> self.curve_enum,
                      subtarget |-> NoName,
                      offset |-> <<i * objects[self.curve_enum].path_duration,
                                   self.bone_count>>]
           loc == [type |-> "COPY_LOCATION", target |-> "Armature",
                   subtarget |-> get_locator_name(self.bone_name, i),
                   offset |-> <<0, 1>>]
           track == [type |-> "TRACK_TO", target |-> "Armature",
                     subtarget |-> get_locator_name(self.bone_name,
                                                    (i + 1) % self.bone_count),
                     offset |-> <<0, 1>>]
           c1 == [constraints EXCEPT ![locator] = Append(@, follow)]
       IN  IF locator = NoName \/ bone = NoName
           THEN \* AttributeError on None: the exception leaves execute
                /\ constraints' = IF locator = NoName THEN constraints ELSE c1
                /\ result' = "EXCEPTION"
                /\ pc' = "idle"
                /\ i' = i
           ELSE /\ constraints' = [c1 EXCEPT ![bone] = Append(Append(@, loc), track)]
                /\ i' = i + 1
                /\ UNCHANGED <<pc, result>>
    /\ UNCHANGED <<meshVars, mode, objects, bones, self, L, report, invocation, pre, completed>>

\* line 153
ExecuteFinish ==
    /\ pc = "constraints" /\ i = self.bone_count
    /\ result' = "FINISHED"
    /\ pc' = "idle"
    /\ completed' = completed \cup {[inv |-> invocation, bone_count |-> self.bone_count,
                                     bone_name |-> self.bone_name,
                                     curve_enum |-> self.curve_enum, L |-> L]}
    /\ UNCHANGED <<meshVars, mode, objects, bones, constraints, self, i, L, report,
                   invocation, pre>>

NextArm ==
    \/ ExecuteNoCurve
    \/ ExecuteNoSpline
    \/ ExecuteBegin
    \/ CreateBones
    \/ EditModeOut
    \/ AddConstraints
    \/ ExecuteFinish

\* A bone the armature held before: named like the operator's first bone of
\* base "Chain", of length 1, without constraints.
OldBone == [parent |-> NoName, head |-> 0, tail |-> 1, inv |-> 0, idx |-> 0, role |-> "old"]

InitArm ==
    /\ mode \in {"OBJECT", "EDIT", "POSE"}
    /\ \E s \in SplineLists :
         objects = [c \in {CurveName} |-> [splines |-> s, path_duration |-> 100]]
    /\ \E old \in SUBSET {get_bone_name("Chain", 0)} :
         /\ bones = [b \in old |-> OldBone]
         /\ constraints = [b \in old |-> <<>>]
    /\ self = [bone_count |-> 1, bone_name |-> "Chain", curve_enum |-> CurveName]
    /\ pc = "idle"
    /\ i = 0
    /\ L = 0
    /\ result = "NONE"
    /\ report = "NONE"
    /\ invocation = 0
    /\ pre = Snapshot
    /\ completed = {}

\* --------------------------------------------------- CreateChainMeshArray
ArmBones == 1..MaxArmBones
NoBone == 0
OtherGroup == [name |-> 0, dup |-> 0]   \* a group not named after any bone

\* vertex group named after bone b: vg.name = bone.name
GroupName(b) == [name |-> b, dup |-> 0]

\* lines 160-165
RECURSIVE FirstArmature(_)
FirstArmature(mods) ==
    IF mods = <<>> THEN "None"
    ELSE IF Head(mods).type = "ARMATURE" THEN Head(mods).object
    ELSE FirstArmature(Tail(mods))

get_armature_object == FirstArmature(modifiers)

\* arm.bones.get(self.rootbone_enum, None)
RootBone == IF rootbone_enum \in ArmBones THEN rootbone_enum ELSE NoBone

\* mesh_obj.vertex_groups.get(name): the index of the group, 0 for None
GroupIndex(groups, name) ==
    IF \E k \in 1..Len(groups) : groups[k] = name
    THEN CHOOSE k \in 1..Len(groups) : groups[k] = name
    ELSE 0

\* vertex_groups.remove(vg) in edit mode: the group leaves the list, its
\* weights leave every vertex and the later groups' indices move down by one
RemoveAt(s, k) == [j \in 1..(Len(s) - 1) |-> IF j < k THEN s[j] ELSE s[j + 1]]

\* variant: the later groups' indices are not moved
WeightsWithoutKeepIndex(dv, k) == [j \in DOMAIN dv \ {k} |-> dv[j]]
WeightsWithout(dv, k) ==
    [j \in {x \in DOMAIN dv : x < k} \cup {x - 1 : x \in {y \in DOMAIN dv : y > k}} |->
        IF j < k THEN dv[j] ELSE dv[j + 1]]

\* vertex_groups.new(name=...): the host makes the name unique
UniqueGroupName(name, groups) ==
    IF GroupIndex(groups, name) = 0 THEN name
    ELSE LET free(k) == GroupIndex(groups, [name EXCEPT !.dup = k]) = 0
             k == CHOOSE k \in 1..(Len(groups) + 1) :
                     free(k) /\ \A j \in 1..(k - 1) : ~free(j)
         IN  [name EXCEPT !.dup = k]

\* assign_bone_verts (lines 214-218) on the deform layer dv
assign_bone_verts(dv, groups, bone, verts) ==
    LET vg_index == GroupIndex(groups, GroupName(bone))
    IN  [v \in DOMAIN dv |-> IF v \in verts THEN Put(dv[v], vg_index, "1.0") ELSE dv[v]]

\* midpoint 0.5 * (head_local + tail_local) of a bone, along the chain axis
BoneMid(b) == 10 * b

MeshSnapshot == [vertex_groups |-> vertex_groups, dvert |-> dvert, nverts |-> nverts,
                 co |-> co, select |-> select]

\* lines 188-191
MExecuteNoArmature ==
    /\ mpc = "idle"
    /\ get_armature_object = "None"
    /\ mreport' = "ERROR_INVALID_CONTEXT"
    /\ mresult' = "CANCELLED"
    /\ mpc' = "returned"
    /\ UNCHANGED <<armVars, modifiers, children, rootbone_enum, chain, vertex_groups, nverts,
                   select, dvert, co, frag, geom, mi, mpre>>

\* lines 195-198
\* variant: the root bone check placed after the vertex group is created
MExecuteNoRootLate ==
    /\ mpc = "idle"
    /\ get_armature_object # "None"
    /\ RootBone = NoBone
    /\ vertex_groups' = Append(vertex_groups, UniqueGroupName(GroupName(NoBone), vertex_groups))
    /\ mreport' = "ERROR_INVALID_CONTEXT"
    /\ mresult' = "CANCELLED"
    /\ mpc' = "returned"
    /\ UNCHANGED <<armVars, modifiers, children, rootbone_enum, chain, nverts,
                   select, dvert, co, frag, geom, mi, mpre>>

MExecuteNoRoot ==
    /\ mpc = "idle"
    /\ get_armature_object # "None"
    /\ RootBone = NoBone
    /\ mreport' = "ERROR_INVALID_CONTEXT"
    /\ mresult' = "CANCELLED"
    /\ mpc' = "returned"
    /\ UNCHANGED <<armVars, modifiers, children, rootbone_enum, chain, vertex_groups, nverts,
                   select, dvert, co, frag, geom, mi, mpre>>

\* line 200
MExecuteBegin ==
    /\ mpc = "idle"
    /\ get_armature_object # "None"
    /\ RootBone # NoBone
    /\ chain' = <<RootBone>>
    /\ mresult' = "RUNNING"
    /\ mpc' = "walk"
    /\ UNCHANGED <<armVars, modifiers, children, rootbone_enum, vertex_groups, nverts,
                   select, dvert, co, frag, geom, mi, mreport, mpre>>

\* lines 201-202: one iteration of the while loop
\* variant: the walk follows the last child
NextInChainLast(b) == children[b][Len(children[b])]
NextInChain(b) == children[b][1]

WalkStep ==
    /\ mpc = "walk"
    /\ children[chain[Len(chain)]] # <<>>
    /\ chain' = Append(chain, NextInChain(chain[Len(chain)]))
    /\ UNCHANGED <<armVars, modifiers, children, rootbone_enum, vertex_groups, nverts,
                   select, dvert, co, frag, geom, mpc, mi, mresult, mreport, mpre>>

\* line 201: the loop condition is false
WalkDone ==
    /\ mpc = "walk"
    /\ children[chain[Len(chain)]] = <<>>
    /\ mpc' = "groups"
    /\ mi' = 1
    /\ UNCHANGED <<armVars, modifiers, children, rootbone_enum, chain, vertex_groups, nverts,
                   select, dvert, co, frag, geom, mresult, mreport, mpre>>

\* lines 204-208: one iteration, for bone chain[mi]
RecreateGroup ==
    /\ mpc = "groups" /\ mi <= Len(chain)
    /\ LET name == GroupName(chain[mi])
           k == GroupIndex(vertex_groups, name)
           groups1 == IF k # 0 THEN RemoveAt(vertex_groups, k) ELSE vertex_groups
           dvert1 == IF k # 0 THEN [v \in DOMAIN dvert |-> WeightsWithout(dvert[v], k)]
                     ELSE dvert
       IN  /\ vertex_groups' = Append(groups1, UniqueGroupName(name, groups1))
           /\ dvert' = dvert1
    /\ mi' = mi + 1
    /\ UNCHANGED <<armVars, modifiers, children, rootbone_enum, chain, nverts,
                   select, co, frag, geom, mpc, mresult, mreport, mpre>>

\* lines 210-228: the selected geometry becomes the template.  The faces
\* and edges of geom bring no vertex of their own: a selected face or edge
\* has its vertices selected.
\* variant: the root's group assigned before the duplicates are taken
CaptureGeomAssigning ==
    /\ mpc = "groups" /\ mi > Len(chain)
    /\ geom' = select
    /\ frag' = [v \in DOMAIN frag |-> IF v \in select THEN 1 ELSE 0]
    /\ dvert' = assign_bone_verts(dvert, vertex_groups, chain[1], select)
    /\ mpc' = "duplicate"
    /\ mi' = 1
    /\ UNCHANGED <<armVars, modifiers, children, rootbone_enum, chain, vertex_groups, nverts,
                   select, co, mresult, mreport, mpre>>

CaptureGeom ==
    /\ mpc = "groups" /\ mi > Len(chain)
    /\ geom' = select
    /\ frag' = [v \in DOMAIN frag |-> IF v \in select THEN 1 ELSE 0]
    /\ mpc' = "duplicate"
    /\ mi' = 1
    /\ UNCHANGED <<armVars, modifiers, children, rootbone_enum, chain, vertex_groups, nverts,
                   select, dvert, co, mresult, mreport, mpre>>

\* lines 229-236: one iteration, for the bone DupliBones(chain)[mi].
\* bmesh.ops.duplicate copies every template vertex with its custom data, the
\* deform weights included; the copies are translated by pi - p0 and weighted
\* to the bone.
Rank(v, S) == Cardinality({w \in S : w <= v})
CopyOf(v, n) == CHOOSE w \in geom : n + Rank(w, geom) = v
ChainIndex(b) == CHOOSE j \in 1..Len(chain) : chain[j] = b

\* chain[1:]
\* variant: the loop runs over chain instead of chain[1:]
DupliBonesAll(c) == c
DupliBones(c) == Tail(c)

Duplicate ==
    /\ mpc = "duplicate" /\ mi <= Len(DupliBones(chain))
    /\ LET bone == DupliBones(chain)[mi]
           dupli_verts == (nverts + 1)..(nverts + Cardinality(geom))
           all == 1..(nverts + Cardinality(geom))
           dvert1 == [v \in all |-> IF v \in dupli_verts THEN dvert[CopyOf(v, nverts)]
                                    ELSE dvert[v]]
       IN  /\ nverts' = nverts + Cardinality(geom)
           /\ co' = [v \in all |-> IF v \in dupli_verts
                                   THEN co[CopyOf(v, nverts)] + (BoneMid(bone) - BoneMid(chain[1]))
                                   ELSE co[v]]
           /\ frag' = [v \in all |-> IF v \in dupli_verts THEN ChainIndex(bone) ELSE frag[v]]
           /\ dvert' = assign_bone_verts(dvert1, vertex_groups, bone, dupli_verts)
    /\ mi' = mi + 1
    /\ UNCHANGED <<armVars, modifiers, children, rootbone_enum, chain, vertex_groups,
                   select, geom, mpc, mresult, mreport, mpre>>

\* lines 238-247: the root's group goes to the template, then the edit commits
AssignRoot ==
    /\ mpc = "duplicate" /\ mi > Len(DupliBones(chain))
    /\ dvert' = assign_bone_verts(dvert, vertex_groups, chain[1], geom)
    /\ mresult' = "FINISHED"
    /\ mpc' = "returned"
    /\ UNCHANGED <<armVars, modifiers, children, rootbone_enum, chain, vertex_groups, nverts,
                   select, co, frag, geom, mi, mreport, mpre>>

NextMesh ==
    \/ MExecuteNoArmature
    \/ MExecuteNoRoot
    \/ MExecuteBegin
    \/ WalkStep
    \/ WalkDone
    \/ RecreateGroup
    \/ CaptureGeom
    \/ Duplicate
    \/ AssignRoot

\* ------------------------------------------------------------ the scenes
\* The armature of the mesh: every forest over ArmBones; a bone's children
\* are listed in the order of `rank`.
RECURSIVE ReachesRoot(_, _, _)
ReachesRoot(parent, b, k) ==
    IF b = NoBone THEN TRUE
    ELSE IF k = 0 THEN FALSE
    ELSE ReachesRoot(parent, parent[b], k - 1)

Forests == {p \in [ArmBones -> ArmBones \cup {NoBone}] :
               \A b \in ArmBones : ReachesRoot(p, b, MaxArmBones)}

RECURSIVE SortBy(_, _)
SortBy(S, rank) ==
    IF S = {} THEN <<>>
    ELSE LET m == CHOOSE x \in S : \A y \in S : rank[x] <= rank[y]
         IN  <<m>> \o SortBy(S \ {m}, rank)

ChildrenOf(parent, rank) ==
    [b \in ArmBones |-> SortBy({c \in ArmBones : parent[c] = b}, rank)]

AllRanks == {r \in [ArmBones -> ArmBones] : \A a, b \in ArmBones : r[a] = r[b] => a = b}
TwoRanks == {[b \in ArmBones |-> b], [b \in ArmBones |-> MaxArmBones + 1 - b]}

ModifierLists ==
    LET none == [type |-> "SUBSURF", object |-> "None"]
        unset == [type |-> "ARMATURE", object |-> "None"]
        arm == [type |-> "ARMATURE", object |-> "Armature"]
    IN  {<<>>, <<none>>, <<unset>>, <<unset, arm>>, <<none, arm>>, <<arm, unset>>}

InitGroupLists ==
    LET names == {GroupName(1), OtherGroup}
    IN  ({<<>>} \cup {<<a>> : a \in names} \cup {<<a, b>> : a, b \in names})
            \ {<<a, a>> : a \in names}

InitArmature(ranks) ==
    /\ modifiers \in ModifierLists
    /\ IF FirstArmature(modifiers) = "None"
       THEN /\ children = [b \in ArmBones |-> <<>>]
            /\ rootbone_enum = NoBone
       ELSE /\ \E p \in Forests, r \in ranks : children = ChildrenOf(p, r)
            /\ rootbone_enum \in ArmBones \cup {NoBone}

InitMeshData(selections, groupLists, weighted) ==
    /\ nverts = MaxVerts
    /\ select \in selections
    /\ vertex_groups \in groupLists
    /\ \E w \in weighted :
         dvert = [v \in 1..MaxVerts |->
                    [k \in (IF w THEN 1..Len(vertex_groups) ELSE {}) |-> "0.5"]]
    /\ co = [v \in 1..MaxVerts |-> v]
    /\ frag = [v \in 1..MaxVerts |-> 0]
    /\ geom = {}
    /\ chain = <<>>
    /\ mpc = "idle"
    /\ mi = 0
    /\ mresult = "NONE"
    /\ mreport = "NONE"
    /\ mpre = MeshSnapshot

InitMesh ==
    /\ InitArmature(TwoRanks)
    /\ InitMeshData(SUBSET (1..MaxVerts), InitGroupLists, BOOLEAN)

InitWalk ==
    /\ InitArmature(AllRanks)
    /\ InitMeshData({1..MaxVerts}, {<<>>}, {FALSE})

\* the scene AddBoneChain does not touch, and the one CreateChainMeshArray
\* does not touch
IdleMesh ==
    /\ modifiers = <<>>
    /\ children = [b \in ArmBones |-> <<>>]
    /\ rootbone_enum = NoBone
    /\ InitMeshData({{}}, {<<>>}, {FALSE})

IdleArm ==
    /\ mode = "OBJECT"
    /\ objects = [c \in {CurveName} |-> [splines |-> <<>>, path_duration |-> 100]]
    /\ bones = [b \in {} |-> OldBone]
    /\ constraints = [b \in {} |-> <<>>]
    /\ self = [bone_count |-> 1, bone_name |-> "Chain", curve_enum |-> CurveName]
    /\ pc = "idle"
    /\ i = 0
    /\ L = 0
    /\ result = "NONE"
    /\ report = "NONE"
    /\ invocation = 0
    /\ pre = Snapshot
    /\ completed = {}

\* AddBoneChain run up to MaxInvocations times on one armature
InitArmScene == InitArm /\ IdleMesh
SpecArm == InitArmScene /\ [][NextArm]_vars

\* CreateChainMeshArray run once on a mesh
InitMeshScene == IdleArm /\ InitMesh
SpecMesh == InitMeshScene /\ [][NextMesh]_vars

\* CreateChainMeshArray on every bone hierarchy; execute runs to its return
\* once the host calls it
InitWalkScene == IdleArm /\ InitWalk
SpecWalk == InitWalkScene /\ [][NextMesh]_vars /\ WF_vars(NextMesh)

\* ------------------------------------------------------------ the claims
MainBones(v) == {b \in DOMAIN bones : bones[b].inv = v /\ bones[b].role = "main"}
Locators(v) == {b \in DOMAIN bones : bones[b].inv = v /\ bones[b].role = "locator"}
IsLocator(b, v, k) ==
    b \in DOMAIN bones /\ bones[b].inv = v /\ bones[b].role = "locator" /\ bones[b].idx = k
OfType(cs, t) == {k \in 1..Len(cs) : cs[k].type = t}
Abs(x) == IF x < 0 THEN -x ELSE x

\* C1: every completed AddBoneChain invocation with bone count N has added
\* exactly N main bones and N locators, main bone i > 0 is parented to main
\* bone i-1 of the same invocation, and main bone 0 and every locator have
\* no parent, whatever bones the armature held before.
C1_ChainParented ==
    \A c \in completed :
        /\ Cardinality(MainBones(c.inv)) = c.bone_count
        /\ Cardinality(Locators(c.inv)) = c.bone_count
        /\ \A b \in MainBones(c.inv) :
              IF bones[b].idx = 0 THEN bones[b].parent = NoName
              ELSE /\ bones[b].parent \in MainBones(c.inv)
                   /\ bones[bones[b].parent].idx = bones[b].idx - 1
        /\ \A b \in Locators(c.inv) : bones[b].parent = NoName

\* C2: after completed invocations every main bone i of a chain of N bones
\* carries exactly one copy-location constraint, on locator i, and exactly
\* one track-to constraint, on locator (i+1) mod N, and every locator
\* carries exactly one path-follow constraint on the chosen curve.
C2_ConstraintsPerBone ==
    \A c \in completed :
        /\ \A b \in MainBones(c.inv) :
              LET cs == constraints[b]
              IN  /\ Cardinality(OfType(cs, "COPY_LOCATION")) = 1
                  /\ \A k \in OfType(cs, "COPY_LOCATION") :
                        IsLocator(cs[k].subtarget, c.inv, bones[b].idx)
                  /\ Cardinality(OfType(cs, "TRACK_TO")) = 1
                  /\ \A k \in OfType(cs, "TRACK_TO") :
                        IsLocator(cs[k].subtarget, c.inv, (bones[b].idx + 1) % c.bone_count)
        /\ \A b \in Locators(c.inv) :
              LET cs == constraints[b]
              IN  /\ Cardinality(OfType(cs, "FOLLOW_PATH")) = 1
                  /\ \A k \in OfType(cs, "FOLLOW_PATH") : cs[k].target = c.curve_enum

\* C3: an invocation whose curve does not resolve, or has no spline, returns
\* CANCELLED with an ERROR_INVALID_INPUT report and leaves the bones, the
\* pose constraints and the mode as they were.
C3_InvalidCurveCancels ==
    (/\ invocation > 0
     /\ \/ self.curve_enum \notin DOMAIN objects
        \/ objects[self.curve_enum].splines = <<>>)
    => /\ pc = "idle"
       /\ result = "CANCELLED"
       /\ report = "ERROR_INVALID_INPUT"
       /\ Snapshot = pre

C3_Witness ==
    /\ invocation = 2
    /\ self.curve_enum = CurveName
    /\ objects[CurveName].splines = <<>>
    /\ result = "CANCELLED"
    /\ DOMAIN bones # {}
    /\ mode = "POSE"

\* C7 as claimed: for a curve of arc length > 0, one spline or several, the
\* link length L in use satisfies L * N = the arc length of the curve, read
\* with the floating tolerance of one division.
C7_LinkLengthSpansCurve ==
    (/\ pc \in {"bones", "constraints"}
     /\ SumSeq(objects[self.curve_enum].splines) > 0)
    => LET arc == SumSeq(objects[self.curve_enum].splines)
       IN  Abs(L * self.bone_count - arc) * Pow2(MantissaBits) <= arc

\* C7 amended: L * N equals the length of the curve's first spline up to the
\* rounding of one floating point division, a relative error of at most
\* 2^-MantissaBits; the further splines of the curve do not count.
C7_LinkLengthSpansFirstSpline ==
    pc \in {"bones", "constraints"}
    => LET first == objects[self.curve_enum].splines[1]
       IN  Abs(L * self.bone_count - first) * Pow2(MantissaBits) <= first

C7_Witness ==
    /\ pc = "bones"
    /\ Len(objects[self.curve_enum].splines) = 2
    /\ objects[self.curve_enum].splines[1] > 0
    /\ objects[self.curve_enum].splines[2] > 0
    /\ self.bone_count = 3
    /\ L * self.bone_count # objects[self.curve_enum].splines[1]

\* C9: bones are created only in edit mode; a constraint is attached only
\* outside edit mode, in the constraint loop, once all 2N bones of the
\* invocation have been created.
ConstraintAdded ==
    \E b \in DOMAIN constraints \cap DOMAIN constraints' :
        Len(constraints'[b]) > Len(constraints[b])

C9_BonesThenConstraints ==
    [][/\ (DOMAIN bones' \ DOMAIN bones # {}) => (mode = "EDIT" /\ mode' = "EDIT")
       /\ ConstraintAdded =>
             /\ mode # "EDIT" /\ mode' # "EDIT"
             /\ pc = "constraints"
             /\ Cardinality(MainBones(invocation) \cup Locators(invocation))
                   = 2 * self.bone_count]_vars

C9_Witness ==
    /\ pc = "constraints"
    /\ i = self.bone_count
    /\ self.bone_count = 3
    /\ mode = "OBJECT"
    /\ pre.mode = "POSE"
    /\ \A b \in MainBones(invocation) : Len(constraints[b]) >= 2

\* --- CreateChainMeshArray
Finished == mpc = "returned" /\ mresult = "FINISHED"
ChainGroupIndex(j) == GroupIndex(vertex_groups, GroupName(chain[j]))
GroupsNamedAfter(b) == {k \in 1..Len(vertex_groups) : vertex_groups[k].name = b}

\* C4: a completed invocation on a chain of M bones with K template vertices
\* has added (M-1)*K vertices and leaves exactly one vertex group per chain
\* bone, named after the bone, also when such groups existed before.
C4_VerticesAndGroups ==
    Finished =>
        /\ nverts = mpre.nverts + (Len(chain) - 1) * Cardinality(mpre.select)
        /\ \A j \in 1..Len(chain) :
              /\ ChainGroupIndex(j) # 0
              /\ Cardinality(GroupsNamedAfter(chain[j])) = 1

C4_Witness ==
    /\ Finished
    /\ Len(chain) = 3
    /\ Cardinality(mpre.select) = 2
    /\ \E j \in 1..Len(chain) : GroupIndex(mpre.vertex_groups, GroupName(chain[j])) # 0

\* C5 as claimed: after a completed invocation every vertex of the fragment
\* of chain bone i has weight 1.0 in bone i's group and no weight in any
\* other vertex group.
C5_OnlyOwnGroup ==
    Finished =>
        \A v \in 1..nverts :
            frag[v] > 0 =>
                /\ DOMAIN dvert[v] = {ChainGroupIndex(frag[v])}
                /\ dvert[v][ChainGroupIndex(frag[v])] = "1.0"

\* C5 amended: after a completed invocation every vertex of the fragment of
\* chain bone i has weight 1.0 in bone i's group and no weight in the group
\* of any other chain bone.
C5_OnlyOwnChainGroup ==
    Finished =>
        \A v \in 1..nverts :
            frag[v] > 0 =>
                /\ ChainGroupIndex(frag[v]) \in DOMAIN dvert[v]
                /\ dvert[v][ChainGroupIndex(frag[v])] = "1.0"
                /\ \A j \in 1..Len(chain) :
                      j # frag[v] => ChainGroupIndex(j) \notin DOMAIN dvert[v]

C5_Witness ==
    /\ Finished
    /\ Len(chain) >= 2
    /\ geom # {}
    /\ GroupIndex(mpre.vertex_groups, GroupName(chain[1])) # 0
    /\ \E v \in 1..nverts :
          /\ frag[v] = 2
          /\ \E k \in DOMAIN dvert[v] : vertex_groups[k] = OtherGroup

\* C6: an invocation on a mesh without armature modifier, or whose first
\* armature modifier has no object, or with a root bone name that is no bone
\* of the armature, returns CANCELLED with an ERROR_INVALID_CONTEXT report and
\* leaves the vertex groups, the weights and the geometry as they were.
NoArmatureModifier == \A k \in 1..Len(modifiers) : modifiers[k].type # "ARMATURE"
UnsetArmatureModifier ==
    \E k \in 1..Len(modifiers) :
        /\ modifiers[k].type = "ARMATURE" /\ modifiers[k].object = "None"
        /\ \A j \in 1..(k - 1) : modifiers[j].type # "ARMATURE"

C6_InvalidContextCancels ==
    (/\ mpc # "idle"
     /\ NoArmatureModifier \/ UnsetArmatureModifier \/ rootbone_enum \notin ArmBones)
    => /\ mpc = "returned"
       /\ mresult = "CANCELLED"
       /\ mreport = "ERROR_INVALID_CONTEXT"
       /\ MeshSnapshot = mpre

C6_Witness ==
    /\ mpc = "returned"
    /\ mresult = "CANCELLED"
    /\ ~NoArmatureModifier /\ ~UnsetArmatureModifier
    /\ rootbone_enum \notin ArmBones
    /\ Len(vertex_groups) = 2
    /\ DOMAIN dvert[1] # {}
    /\ select # {}

\* C8: whenever a duplicate of the template is taken, no template vertex
\* has a weight in the vertex group of any chain bone.
TemplateHasChainWeight ==
    \E v \in geom : \E k \in DOMAIN dvert[v] :
        \E j \in 1..Len(chain) : vertex_groups[k] = GroupName(chain[j])

C8_DuplicateBeforeRootWeight ==
    [][nverts' > nverts => ~TemplateHasChainWeight]_vars

C8_Witness ==
    /\ mpc = "duplicate"
    /\ mi = 3
    /\ nverts = MaxVerts + 2 * Cardinality(geom)
    /\ Cardinality(geom) = 2
    /\ GroupIndex(mpre.vertex_groups, GroupName(chain[1])) # 0
    /\ DOMAIN mpre.dvert[1] # {}

\* C10: the chain walk ends, and the chain is the path from the root that
\* follows the first child of each bone down to a bone without children: its
\* bones are pairwise distinct and no later sibling is in it.
IsFirstChildPath(c) ==
    /\ c[1] = rootbone_enum
    /\ \A j \in 1..(Len(c) - 1) :
          /\ children[c[j]] # <<>>
          /\ c[j + 1] = Head(children[c[j]])
    /\ \A j, k \in 1..Len(c) : c[j] = c[k] => j = k

WalkInv ==
    /\ mpc = "walk" => IsFirstChildPath(chain)
    /\ (mpc \notin {"idle", "walk"} /\ mresult # "CANCELLED")
          => /\ IsFirstChildPath(chain)
             /\ children[chain[Len(chain)]] = <<>>

C10_ChainWalk == []WalkInv /\ ((mpc = "walk") ~> (mpc = "groups"))

C10_Witness ==
    /\ mpc = "groups"
    /\ Len(chain) = 2
    /\ Len(children[chain[1]]) = 2
    /\ chain[2] > children[chain[1]][2]

====
